---- MODULE Spec2Model ----
(***************************************************************************)
(* Authentication core of the SecurePay backend: the login state machine   *)
(* of backend/app/api/v1/endpoints/auth.py over one registered account,    *)
(* the MFA enrolment endpoints, the session store and the audit logger.    *)
(* Time is counted in minutes.                                             *)
(***************************************************************************)
EXTENDS Integers, Sequences, FiniteSets, TLC

\* ---------------------------------------------------------------- bounds
MaxTime == 45
MaxSessions == 2
MaxSecrets == 1

\* amounts of time that may pass between two requests
TickSteps == {15, 30}
StaleMinutes == 15

\* the limiter on its own: limit, window and clock in seconds, callers
RlLimit == 2
RlWindow == 3
MaxRlTime == 7
NumCallers == 2

\* the gate: the quotas configured per minute and per hour, the clock in
\* seconds and the number of requests
GateMinuteLimit == 2
GateHourLimit == 3
MaxGateTime == 3660
MaxGateOffset == 60
MaxRequests == 4

\* the session store on its own: the clock in seconds and a time to live
\* shorter than the default
MaxSsTime == 5
ShortTtl == 3

\* concurrent logins: the callers beside the persistent one, and the
\* attempts they make between them
NumOthers == 2
MaxOtherAttempts == 2

\* masking: the longest input
MaxMaskLen == 7

\* the token service on claim sets: the clock in minutes
MaxTokTime == 10125
MaxTokOffset == 45
InitStatuses == {"active", "suspended"}

\* ------------------------------------------------------ program constants
MAX_FAILED_ATTEMPTS == 5
LOCKOUT_MINUTES == 30
JWT_ACCESS_TOKEN_EXPIRE_MINUTES == 30
JWT_REFRESH_TOKEN_EXPIRE_DAYS == 7
SESSION_DEFAULT_TTL == 86400
MFA_VALID_WINDOW == 1
TOTP_INTERVAL == 30
MINUTE_WINDOW == 60
HOUR_WINDOW == 3600

\* ----------------------------------------------------------------- values
NoTime == -1
NoSecret == 0
NoCode == [secret |-> NoSecret, step |-> -1]

UserStatus == {"active", "inactive", "suspended", "pending"}
Emails == {"alice@example.com", "nobody@example.com"}
Passwords == {"CorrectHorse#12", "wrong-password"}
REGISTERED_EMAIL == "alice@example.com"
REGISTERED_PASSWORD == "CorrectHorse#12"
USER_ID == "user-1"

VARIABLES now, user, sessions, next_sid, next_secret, held, req, resp, audit,
          calls, wrong_run, run_end

\* Token Service: the token a caller presents and the outcome of the call
VARIABLES tk_token, tk_minted, tk_out

\* Rate Limiter: the clock in seconds, the counters kept in Redis, the
\* callers inside is_allowed, the outcome of the last call, and the history
\* of the calls kept for the window properties
VARIABLES rl_now, rl_store, rl_pc, rl_out, rl_win_start, rl_win_calls,
          rl_admits, rl_expire_sets

\* Request Gate: the outcome of the last request, the log and audit events
\* emitted for it, and the number of request ids generated for it
VARIABLES gt_out, gt_log, gt_ids

\* Session Store on its own: the clock in seconds, the entry of one session
\* id, the callers inside update, the outcome of the last call, and whether
\* the entry was deleted or has expired since it was last created
VARIABLES ss_now, ss_store, ss_pc, ss_out, ss_gone

\* Concurrent logins: the requests in flight with the account row each has
\* read, the attempts the persistent caller has completed, and the attempts
\* the other callers may still start
VARIABLES cl_pc, cl_done, cl_left

\* Masking: the last input and the output made from it
VARIABLES mk_in, mk_out

authVars == <<user, sessions, next_sid, next_secret, held, req, resp, audit,
              calls, wrong_run, run_end>>

tokVars == <<tk_token, tk_minted, tk_out>>

rlVars == <<rl_now, rl_store, rl_pc, rl_out, rl_win_start, rl_win_calls,
            rl_admits, rl_expire_sets>>

gateVars == <<gt_out, gt_log, gt_ids>>

ssVars == <<ss_now, ss_store, ss_pc, ss_out, ss_gone>>

clVars == <<cl_pc, cl_done, cl_left>>

mkVars == <<mk_in, mk_out>>

extVars == <<ssVars, clVars, mkVars>>

vars == <<now, authVars, tokVars, rlVars, gateVars, extVars>>

\* ------------------------------------------------------- Credential Service
hash_password(password) == [scheme |-> "argon2", of |-> password]

verify_password(plain_password, hashed_password) ==
    hashed_password = hash_password(plain_password)

\* ---------------------------------------------------------------- MFA Service
\* pyotp counts 30-second steps; the clock of the model counts minutes
TotpStep(t) == (t * 60) \div TOTP_INTERVAL

TotpCode(secret, t) == [secret |-> secret, step |-> TotpStep(t)]

\* variant: the code is matched against the secret only, whatever its step
verify_totp_any_step(secret, code) == code.secret = secret

verify_totp(secret, code) ==
    \E k \in (0 - MFA_VALID_WINDOW)..MFA_VALID_WINDOW :
        code = [secret |-> secret, step |-> TotpStep(now) + k]

\* -------------------------------------------------------------- Token Service
NoToken == [type |-> "none", sub |-> "", exp |-> NoTime, iat |-> NoTime]
\* current_session_id of an account that is logged out (None)
NoSession == 0

EmptyToken == [type |-> "empty", sub |-> "", exp |-> NoTime, iat |-> NoTime]

create_access_token(sub) ==
    [type |-> "access", sub |-> sub,
     exp |-> now + JWT_ACCESS_TOKEN_EXPIRE_MINUTES, iat |-> now]

create_refresh_token(sub) ==
    [type |-> "refresh", sub |-> sub,
     exp |-> now + JWT_REFRESH_TOKEN_EXPIRE_DAYS * 24 * 60, iat |-> now]

\* jose rejects a token whose exp lies before the current time
decode_token(token) ==
    /\ token.type \in {"access", "refresh"}
    /\ token.exp >= now

verify_token_type(token, expected_type) == token.type = expected_type

\* variant: the bearer is also looked up, and needs a session and no lock
get_current_user_live_session(token) ==
    /\ decode_token(token)
    /\ verify_token_type(token, "access")
    /\ token.sub # ""
    /\ user.current_session_id # NoSession
    /\ user.locked_until = NoTime

\* security.py 250-272: the token alone decides
get_current_user(token) ==
    /\ decode_token(token)
    /\ verify_token_type(token, "access")
    /\ token.sub # ""

\* ------------------------------------------------------------------- Account
\* variant: the lock is never reported
is_locked_never(u) == FALSE

\* variant: the comparison is the wrong way round
is_locked_inverted(u) ==
    IF u.locked_until = NoTime THEN FALSE ELSE now > u.locked_until

is_locked(u) ==
    IF u.locked_until = NoTime THEN FALSE ELSE now < u.locked_until

\* variant: the lock starts only above the threshold
FailedPassword_above(u) ==
    LET n == u.failed_login_attempts + 1 IN
    [u EXCEPT !.failed_login_attempts = n,
              !.last_failed_login = now,
              !.locked_until = IF n > MAX_FAILED_ATTEMPTS
                               THEN now + LOCKOUT_MINUTES
                               ELSE u.locked_until]

\* variant: the lock is counted from the previous failure
FailedPassword_stale(u) ==
    LET n == u.failed_login_attempts + 1 IN
    [u EXCEPT !.failed_login_attempts = n,
              !.last_failed_login = now,
              !.locked_until = IF n >= MAX_FAILED_ATTEMPTS
                               THEN u.last_failed_login + LOCKOUT_MINUTES
                               ELSE u.locked_until]

\* auth.py 194-199: the wrong-password branch of login
FailedPassword(u) ==
    LET n == u.failed_login_attempts + 1 IN
    [u EXCEPT !.failed_login_attempts = n,
              !.last_failed_login = now,
              !.locked_until = IF n >= MAX_FAILED_ATTEMPTS
                               THEN now + LOCKOUT_MINUTES
                               ELSE u.locked_until]

\* variant: locked_until is left in place
ResetFailedAttempts_keeps_lock(u) ==
    [u EXCEPT !.failed_login_attempts = 0,
              !.last_failed_login = NoTime]

\* auth.py 260-262
ResetFailedAttempts(u) ==
    [u EXCEPT !.failed_login_attempts = 0,
              !.last_failed_login = NoTime,
              !.locked_until = NoTime]

\* auth.py 290-292
UpdateUserSession(u, session_id) ==
    [u EXCEPT !.current_session_id = session_id,
              !.last_login = now,
              !.last_activity = now]

\* ------------------------------------------------------------------ Audit
log_authentication(user_id, success, method, reason) ==
    [event_type |-> "authentication", user_id |-> user_id,
     success |-> success, method |-> method, reason |-> reason]

log_security_event(event_name, severity, user_id) ==
    [event_type |-> "security", user_id |-> user_id,
     success |-> TRUE, method |-> event_name, reason |-> severity]

\* -------------------------------------------------------------- responses
HTTPException(op, status_code, detail) ==
    [op |-> op, status_code |-> status_code, detail |-> detail,
     access_token |-> NoToken, refresh_token |-> NoToken,
     expires_in |-> 0, mfa_required |-> FALSE]

TokenResponse(access_token, refresh_token, expires_in, mfa_required) ==
    [op |-> "login", status_code |-> 200, detail |-> "",
     access_token |-> access_token, refresh_token |-> refresh_token,
     expires_in |-> expires_in, mfa_required |-> mfa_required]

\* variant: the MFA-required response carries the tokens
MfaRequiredResponse_with_tokens ==
    TokenResponse(create_access_token(USER_ID), create_refresh_token(USER_ID),
                  0, TRUE)

\* auth.py 238-243
MfaRequiredResponse == TokenResponse(EmptyToken, EmptyToken, 0, TRUE)

Message(op, detail) ==
    [op |-> op, status_code |-> 200, detail |-> detail,
     access_token |-> NoToken, refresh_token |-> NoToken,
     expires_in |-> 0, mfa_required |-> FALSE]

NoRequest == [op |-> "none", email |-> "", password |-> "",
              mfa_code |-> NoCode]

\* ------------------------------------------------------------ Session Store
\* redis.py 208-224: setex with the default ttl; a backend error is caught
\* and reported as False
SessionStore_create(store, session_id, user_id, redis_ok) ==
    IF redis_ok
    THEN [ok |-> TRUE,
          store |-> [s \in DOMAIN store \cup {session_id} |->
                        IF s = session_id
                        THEN [user_id |-> user_id,
                              expires |-> now + SESSION_DEFAULT_TTL \div 60]
                        ELSE store[s]]]
    ELSE [ok |-> FALSE, store |-> store]

\* -------------------------------------------------------------------- login
\* auth.py 147-315.  The result names the account row as committed, the
\* response, the audit events emitted, the calls made and the session store.
LoginResult(u, r, a, c, store, created) ==
    [user |-> u, resp |-> r, audit |-> a, calls |-> c,
     sessions |-> store, created |-> created]

login(email, password, mfa_code, redis_ok) ==
    IF email # user.email
    THEN LoginResult(user,
            HTTPException("login", 401, "Invalid credentials"),
            <<log_authentication(email, FALSE, "login", "User not found")>>,
            {}, sessions, FALSE)
    ELSE IF is_locked(user)
    THEN LoginResult(user,
            HTTPException("login", 403, "Account locked until"),
            <<log_authentication(USER_ID, FALSE, "login", "Account locked")>>,
            {}, sessions, FALSE)
    ELSE IF ~verify_password(password, user.hashed_password)
    THEN LoginResult(FailedPassword(user),
            HTTPException("login", 401, "Invalid credentials"),
            <<log_authentication(USER_ID, FALSE, "login", "Invalid password")>>,
            {"verify_password", "db.commit"}, sessions, FALSE)
    ELSE IF user.status # "active"
    THEN LoginResult(user,
            HTTPException("login", 403, "Account is not active"),
            <<log_authentication(USER_ID, FALSE, "login", "User status")>>,
            {"verify_password"}, sessions, FALSE)
    ELSE IF user.mfa_enabled /\ mfa_code = NoCode
    THEN LoginResult(user, MfaRequiredResponse, <<>>,
            {"verify_password", "db.commit"}, sessions, FALSE)
    ELSE IF user.mfa_enabled /\ ~verify_totp(user.mfa_secret, mfa_code)
    THEN LoginResult(user,
            HTTPException("login", 401, "Invalid MFA code"),
            <<log_authentication(USER_ID, FALSE, "login_mfa", "Invalid MFA code")>>,
            {"verify_password", "verify_totp"}, sessions, FALSE)
    ELSE LET created == SessionStore_create(sessions, next_sid, USER_ID, redis_ok)
         IN  LoginResult(
                UpdateUserSession(ResetFailedAttempts(user), next_sid),
                TokenResponse(create_access_token(USER_ID),
                              create_refresh_token(USER_ID),
                              30 * 60, FALSE),
                <<log_authentication(USER_ID, TRUE, "login", "none")>>,
                {"verify_password", "create_access_token",
                 "create_refresh_token", "db.commit"}
                  \cup (IF user.mfa_enabled THEN {"verify_totp"} ELSE {})
                  \cup (IF created.ok THEN {"session_store.create"}
                                      ELSE {"session_store.create failed"}),
                created.store, TRUE)

\* History of the caller's attempts, kept for the lockout properties:
\* wrong_run counts the wrong-password attempts made in a row on the account
\* since it last had 0 failures, stays at 5 once the fifth was made and is -1
\* when another attempt interrupted the run; run_end is the time of the fifth.
WrongRunAfter(email, password, u) ==
    IF email # REGISTERED_EMAIL THEN wrong_run
    ELSE IF password # REGISTERED_PASSWORD
    THEN (IF wrong_run \in 0..4 THEN wrong_run + 1 ELSE wrong_run)
    ELSE IF u.failed_login_attempts = 0 THEN 0
    ELSE IF wrong_run = 5 THEN 5 ELSE -1

Login(email, password, mfa_code, redis_ok) ==
    LET r == login(email, password, mfa_code, redis_ok) IN
    /\ r.created => next_sid <= MaxSessions
    /\ user' = r.user
    /\ resp' = r.resp
    /\ audit' = r.audit
    /\ calls' = r.calls
    /\ sessions' = r.sessions
    /\ next_sid' = IF r.created THEN next_sid + 1 ELSE next_sid
    /\ held' = IF r.resp.access_token.type = "access"
               THEN r.resp.access_token ELSE held
    /\ req' = [op |-> "login", email |-> email, password |-> password,
               mfa_code |-> mfa_code]
    /\ wrong_run' = WrongRunAfter(email, password, r.user)
    /\ run_end' = IF wrong_run = 4 /\ wrong_run' = 5 THEN now ELSE run_end
    /\ UNCHANGED <<now, next_secret, tokVars, rlVars, gateVars, extVars>>

\* the codes a caller may submit: none, the current code of any secret, and
\* a code of the first secret that is StaleMinutes old
CodeInputs ==
    {NoCode} \cup {TotpCode(s, now) : s \in 1..(MaxSecrets + 1)}
             \cup {TotpCode(1, now - StaleMinutes)}

\* the credentials a caller may submit: any password and code for the
\* registered address, one attempt for an address nobody registered
LoginInputs ==
    {<<REGISTERED_EMAIL, password, mfa_code>> :
        password \in Passwords, mfa_code \in CodeInputs}
    \cup {<<email, "wrong-password", NoCode>> :
            email \in Emails \ {REGISTERED_EMAIL}}

LoginStep ==
    \E credentials \in LoginInputs, redis_ok \in BOOLEAN :
        Login(credentials[1], credentials[2], credentials[3], redis_ok)

\* ------------------------------------------------------------ MFA endpoints
MfaRequest(op, code) ==
    [op |-> op, email |-> "", password |-> "", mfa_code |-> code]

\* auth.py 416-466
EnableMfa ==
    /\ req' = MfaRequest("mfa/enable", NoCode)
    /\ audit' = <<>>
    /\ IF ~get_current_user(held)
       THEN /\ resp' = HTTPException("mfa/enable", 401, "Invalid or expired token")
            /\ calls' = {}
            /\ UNCHANGED <<user, next_secret>>
       ELSE IF user.mfa_enabled
       THEN /\ resp' = HTTPException("mfa/enable", 400, "MFA is already enabled")
            /\ calls' = {}
            /\ UNCHANGED <<user, next_secret>>
       ELSE /\ next_secret <= MaxSecrets
            /\ user' = [user EXCEPT !.mfa_secret = next_secret,
                                    !.backup_codes = next_secret]
            /\ next_secret' = next_secret + 1
            /\ resp' = Message("mfa/enable", "secret")
            /\ calls' = {"generate_secret", "db.commit"}
    /\ UNCHANGED <<now, sessions, next_sid, held, wrong_run, run_end>>
    /\ UNCHANGED <<tokVars, rlVars, gateVars, extVars>>

\* variant: the code is not verified
VerifyMfa_no_check(code) ==
    /\ req' = MfaRequest("mfa/verify", code)
    /\ IF ~get_current_user(held)
       THEN /\ resp' = HTTPException("mfa/verify", 401, "Invalid or expired token")
            /\ calls' = {}
            /\ audit' = <<>>
            /\ UNCHANGED user
       ELSE IF user.mfa_secret = NoSecret
       THEN /\ resp' = HTTPException("mfa/verify", 400, "MFA not set up")
            /\ calls' = {}
            /\ audit' = <<>>
            /\ UNCHANGED user
       ELSE /\ user' = [user EXCEPT !.mfa_enabled = TRUE]
            /\ resp' = Message("mfa/verify", "MFA successfully enabled")
            /\ calls' = {"db.commit"}
            /\ audit' = <<log_security_event("mfa_enabled", "info", USER_ID)>>
    /\ UNCHANGED <<now, sessions, next_sid, next_secret, held, wrong_run, run_end>>
    /\ UNCHANGED <<tokVars, rlVars, gateVars, extVars>>

\* auth.py 469-511
VerifyMfa(code) ==
    /\ req' = MfaRequest("mfa/verify", code)
    /\ IF ~get_current_user(held)
       THEN /\ resp' = HTTPException("mfa/verify", 401, "Invalid or expired token")
            /\ calls' = {}
            /\ audit' = <<>>
            /\ UNCHANGED user
       ELSE IF user.mfa_secret = NoSecret
       THEN /\ resp' = HTTPException("mfa/verify", 400, "MFA not set up")
            /\ calls' = {}
            /\ audit' = <<>>
            /\ UNCHANGED user
       ELSE IF ~verify_totp(user.mfa_secret, code)
       THEN /\ resp' = HTTPException("mfa/verify", 400, "Invalid MFA code")
            /\ calls' = {"verify_totp"}
            /\ audit' = <<>>
            /\ UNCHANGED user
       ELSE /\ user' = [user EXCEPT !.mfa_enabled = TRUE]
            /\ resp' = Message("mfa/verify", "MFA successfully enabled")
            /\ calls' = {"verify_totp", "db.commit"}
            /\ audit' = <<log_security_event("mfa_enabled", "info", USER_ID)>>
    /\ UNCHANGED <<now, sessions, next_sid, next_secret, held, wrong_run, run_end>>
    /\ UNCHANGED <<tokVars, rlVars, gateVars, extVars>>

\* variant: the secret and the backup codes are cleared, the flag is not
DisableMfa_secret_only ==
    /\ req' = MfaRequest("mfa/disable", NoCode)
    /\ IF ~get_current_user(held)
       THEN /\ resp' = HTTPException("mfa/disable", 401, "Invalid or expired token")
            /\ calls' = {}
            /\ audit' = <<>>
            /\ UNCHANGED user
       ELSE IF ~user.mfa_enabled
       THEN /\ resp' = HTTPException("mfa/disable", 400, "MFA is not enabled")
            /\ calls' = {}
            /\ audit' = <<>>
            /\ UNCHANGED user
       ELSE /\ user' = [user EXCEPT !.mfa_secret = NoSecret,
                                    !.backup_codes = NoSecret]
            /\ resp' = Message("mfa/disable", "MFA successfully disabled")
            /\ calls' = {"db.commit"}
            /\ audit' = <<log_security_event("mfa_disabled", "warning", USER_ID)>>
    /\ UNCHANGED <<now, sessions, next_sid, next_secret, held, wrong_run, run_end>>
    /\ UNCHANGED <<tokVars, rlVars, gateVars, extVars>>

\* auth.py 514-556
DisableMfa ==
    /\ req' = MfaRequest("mfa/disable", NoCode)
    /\ IF ~get_current_user(held)
       THEN /\ resp' = HTTPException("mfa/disable", 401, "Invalid or expired token")
            /\ calls' = {}
            /\ audit' = <<>>
            /\ UNCHANGED user
       ELSE IF ~user.mfa_enabled
       THEN /\ resp' = HTTPException("mfa/disable", 400, "MFA is not enabled")
            /\ calls' = {}
            /\ audit' = <<>>
            /\ UNCHANGED user
       ELSE /\ user' = [user EXCEPT !.mfa_enabled = FALSE,
                                    !.mfa_secret = NoSecret,
                                    !.backup_codes = NoSecret]
            /\ resp' = Message("mfa/disable", "MFA successfully disabled")
            /\ calls' = {"db.commit"}
            /\ audit' = <<log_security_event("mfa_disabled", "warning", USER_ID)>>
    /\ UNCHANGED <<now, sessions, next_sid, next_secret, held, wrong_run, run_end>>
    /\ UNCHANGED <<tokVars, rlVars, gateVars, extVars>>

\* ------------------------------------------------------- logout, bearer
\* redis.py 258-268: DEL; a backend error is caught and reported as False
SessionStore_delete_session(store, session_id, redis_ok) ==
    IF redis_ok
    THEN [s \in DOMAIN store \ {session_id} |-> store[s]]
    ELSE store

\* auth.py 379-413
Logout(redis_ok) ==
    /\ req' = MfaRequest("logout", NoCode)
    /\ IF ~get_current_user(held)
       THEN /\ resp' = HTTPException("logout", 401, "Invalid or expired token")
            /\ audit' = <<>>
            /\ calls' = {}
            /\ UNCHANGED <<user, sessions>>
       ELSE /\ IF user.current_session_id # NoSession
               THEN /\ sessions' = SessionStore_delete_session(
                                       sessions, user.current_session_id,
                                       redis_ok)
                    /\ user' = [user EXCEPT !.current_session_id = NoSession]
                    /\ calls' = {"session_store.delete", "db.commit"}
               ELSE /\ calls' = {}
                    /\ UNCHANGED <<user, sessions>>
            /\ audit' = <<log_authentication(USER_ID, TRUE, "logout", "none")>>
            /\ resp' = Message("logout", "Successfully logged out")
    /\ UNCHANGED <<now, next_sid, next_secret, held, wrong_run, run_end>>
    /\ UNCHANGED <<tokVars, rlVars, gateVars, extVars>>

\* the refresh token login issues together with an access token
RefreshSibling(token) ==
    [token EXCEPT !.type = "refresh",
                  !.exp = token.iat + JWT_REFRESH_TOKEN_EXPIRE_DAYS * 24 * 60]

\* the tokens a caller may present on a protected route: the one it holds,
\* the refresh token issued with it, and one minted without sub
BearerTokens ==
    {held, RefreshSibling(held), [held EXCEPT !.sub = ""]}

\* a request to a route behind Depends(get_current_user), security.py
\* 250-272; the caller goes on with the token it presented
Authenticate(token) ==
    /\ req' = MfaRequest("auth", NoCode)
    /\ held' = token
    /\ resp' = IF get_current_user(token)
               THEN Message("auth", token.sub)
               ELSE HTTPException("auth", 401, "Invalid or expired token")
    /\ UNCHANGED <<now, user, sessions, next_sid, next_secret, audit, calls,
                   wrong_run, run_end>>
    /\ UNCHANGED <<tokVars, rlVars, gateVars, extVars>>

\* --------------------------------------------------------------------- time
Tick(d) ==
    /\ now + d <= MaxTime
    /\ now' = now + d
    /\ UNCHANGED <<authVars, tokVars, rlVars, gateVars, extVars>>

\* ------------------------------------------------- Token Service on claim sets
\* A claim value is a string or a number; both are kept in one shape.
Str(x) == [s |-> x, n |-> 0]

Num(x) == [s |-> "", n |-> x]

EmptyClaims == [k \in {} |-> Str("")]

\* dict.update: the entries of extra replace those of data
DictUpdate(data, extra) ==
    [k \in DOMAIN data \cup DOMAIN extra |->
        IF k \in DOMAIN extra THEN extra[k] ELSE data[k]]

\* jose signs the payload with the process-wide key
jwt_encode(payload) == [payload |-> payload, sig |-> "valid"]

NoJwt == [payload |-> EmptyClaims, sig |-> "none"]

\* no expires_delta given (None, or a zero timedelta, which is falsy)
NoDelta == 0

\* variant: the caller's claims are dropped except the subject
JWTService_create_access_token_sub_only(data, expires_delta) ==
    jwt_encode(DictUpdate(
        [k \in DOMAIN data \cap {"sub"} |-> data[k]],
        [exp |-> Num(now + JWT_ACCESS_TOKEN_EXPIRE_MINUTES),
         iat |-> Num(now), type |-> Str("access")]))

\* security.py 110-137
JWTService_create_access_token(data, expires_delta) ==
    LET expire == IF expires_delta # NoDelta
                  THEN now + expires_delta
                  ELSE now + JWT_ACCESS_TOKEN_EXPIRE_MINUTES
    IN  jwt_encode(DictUpdate(data,
            [exp |-> Num(expire), iat |-> Num(now), type |-> Str("access")]))

\* security.py 139-158; jti is a fresh random identifier
JWTService_create_refresh_token(data) ==
    jwt_encode(DictUpdate(data,
        [exp |-> Num(now + JWT_REFRESH_TOKEN_EXPIRE_DAYS * 24 * 60),
         iat |-> Num(now), type |-> Str("refresh"),
         jti |-> Str("jti-random")]))

TokenError(detail) ==
    [ok |-> FALSE, status_code |-> 401, detail |-> detail,
     payload |-> EmptyClaims, access_token |-> NoJwt]

TokenOk(payload, access_token) ==
    [ok |-> TRUE, status_code |-> 200, detail |-> "",
     payload |-> payload, access_token |-> access_token]

\* variant: the expiry is not looked at
JWTService_decode_token_no_exp(token) ==
    IF token.sig = "valid" THEN TokenOk(token.payload, NoJwt)
    ELSE TokenError("Invalid or expired token")

\* security.py 160-176: jose verifies the signature and then rejects a
\* payload whose exp lies before the current time
JWTService_decode_token(token) ==
    IF /\ token.sig = "valid"
       /\ "exp" \in DOMAIN token.payload => token.payload["exp"].n >= now
    THEN TokenOk(token.payload, NoJwt)
    ELSE TokenError("Invalid or expired token")

\* variant: any token type passes
JWTService_verify_token_type_any(payload, expected_type) == TRUE

\* security.py 178-181
JWTService_verify_token_type(payload, expected_type) ==
    /\ "type" \in DOMAIN payload
    /\ payload["type"] = Str(expected_type)

\* security.py 250-272
bearer_get_current_user(token) ==
    LET decoded == JWTService_decode_token(token) IN
    IF ~decoded.ok THEN decoded
    ELSE IF ~JWTService_verify_token_type(decoded.payload, "access")
    THEN TokenError("Invalid token type")
    ELSE IF "sub" \notin DOMAIN decoded.payload
    THEN TokenError("Invalid token payload")
    ELSE decoded

\* the claims login and refresh put into an access token (auth.py 266-271)
UserClaims ==
    [sub |-> Str(USER_ID), email |-> Str(REGISTERED_EMAIL),
     role |-> Str("analyst")]

\* auth.py 318-376
refresh_token_endpoint(token) ==
    LET decoded == JWTService_decode_token(token) IN
    IF ~decoded.ok THEN decoded
    ELSE IF ~JWTService_verify_token_type(decoded.payload, "refresh")
    THEN TokenError("Invalid token type")
    ELSE IF \/ "sub" \notin DOMAIN decoded.payload
            \/ decoded.payload["sub"] # Str(USER_ID)
            \/ user.status # "active"
    THEN TokenError("User not found or inactive")
    ELSE TokenOk(decoded.payload,
                 JWTService_create_access_token(UserClaims, NoDelta))

\* what is remembered of the call that minted tk_token
NoMint == [kind |-> "none", data |-> EmptyClaims, delta |-> NoDelta,
           at |-> NoTime]

TkOut(op, result) ==
    [op |-> op, at |-> now, ok |-> result.ok,
     status_code |-> result.status_code, detail |-> result.detail,
     payload |-> result.payload, access_token |-> result.access_token]

NoTkOut ==
    [op |-> "none", at |-> NoTime, ok |-> FALSE, status_code |-> 0,
     detail |-> "", payload |-> EmptyClaims, access_token |-> NoJwt]

TokIdle ==
    /\ tk_token = NoJwt
    /\ tk_minted = NoMint
    /\ tk_out = NoTkOut

\* -------------------------------------------------------------- Rate Limiter
\* redis.py 133-135
RateLimiter_make_key(identifier, window_seconds) ==
    <<"ratelimit", window_seconds, identifier>>

\* the keys the model uses: one for the limiter on its own, two for the gate
RlKeys ==
    {RateLimiter_make_key("client", RlWindow),
     RateLimiter_make_key("minute:ip", MINUTE_WINDOW),
     RateLimiter_make_key("hour:ip", HOUR_WINDOW)}

\* a key that does not exist reads as count 0; expires = NoTime on a key
\* that exists means that it has no time to live
NoKey == [count |-> 0, expires |-> NoTime]

\* Redis drops a key once its time to live has run out
Purge(store, t) ==
    [k \in DOMAIN store |->
        IF store[k].expires # NoTime /\ t >= store[k].expires
        THEN NoKey ELSE store[k]]

\* GET key, then int(current) if current else 0 (redis.py 152-153)
redis_get(store, key) == Purge(store, rl_now)[key].count

redis_incr(store, key) ==
    LET live == Purge(store, rl_now) IN
    [live EXCEPT ![key].count = live[key].count + 1]

redis_expire(store, key, seconds) ==
    LET live == Purge(store, rl_now) IN
    IF live[key].count = 0 THEN live
    ELSE [live EXCEPT ![key].expires = rl_now + seconds]

\* variant: the time to live is never set
RateLimiter_pipeline_no_expire(store, key, current_count, window_seconds) ==
    redis_incr(store, key)

\* redis.py 158-165: INCR, and EXPIRE when the count read was 0, sent as one
\* transaction
RateLimiter_pipeline(store, key, current_count, window_seconds) ==
    IF current_count = 0
    THEN redis_expire(redis_incr(store, key), key, window_seconds)
    ELSE redis_incr(store, key)

\* variant: a counter equal to the limit still admits
RateLimiter_over_limit_strict(current_count, limit) == current_count > limit

\* redis.py 155
RateLimiter_over_limit(current_count, limit) == current_count >= limit

\* how a backend call of is_allowed may fail: not at all, at GET, at the
\* pipeline before it was applied, or at the pipeline after it was applied
RlFailures == {"none", "get", "execute", "reply"}

RlResult(allowed, remaining, store, failed) ==
    [allowed |-> allowed, remaining |-> remaining, store |-> store,
     failed |-> failed]

\* variant: a backend failure rejects the call
RateLimiter_is_allowed_fail_closed(store, identifier, limit, window_seconds, fail) ==
    LET key == RateLimiter_make_key(identifier, window_seconds)
        current_count == redis_get(store, key)
    IN  IF fail # "none" \/ RateLimiter_over_limit(current_count, limit)
        THEN RlResult(FALSE, 0, store, fail # "none")
        ELSE RlResult(TRUE, limit - current_count - 1,
                      RateLimiter_pipeline(store, key, current_count,
                                           window_seconds), FALSE)

\* redis.py 137-173, run without another caller in between
RateLimiter_is_allowed(store, identifier, limit, window_seconds, fail) ==
    LET key == RateLimiter_make_key(identifier, window_seconds)
        current_count == redis_get(store, key)
        written == RateLimiter_pipeline(store, key, current_count,
                                        window_seconds)
    IN  IF fail = "get" THEN RlResult(TRUE, limit, store, TRUE)
        ELSE IF RateLimiter_over_limit(current_count, limit)
        THEN RlResult(FALSE, 0, store, FALSE)
        ELSE IF fail = "execute" THEN RlResult(TRUE, limit, store, TRUE)
        ELSE IF fail = "reply" THEN RlResult(TRUE, limit, written, TRUE)
        ELSE RlResult(TRUE, limit - current_count - 1, written, FALSE)

\* variant: the difference is returned as it is
RateLimiter_get_remaining_raw(store, identifier, limit, window_seconds, fail) ==
    IF fail THEN limit
    ELSE limit - redis_get(store,
                     RateLimiter_make_key(identifier, window_seconds))

\* redis.py 175-192
RateLimiter_get_remaining(store, identifier, limit, window_seconds, fail) ==
    LET current_count == redis_get(store,
                           RateLimiter_make_key(identifier, window_seconds))
        diff == limit - current_count
    IN  IF fail THEN limit
        ELSE IF diff > 0 THEN diff ELSE 0

IdleCaller == [pc |-> "idle", current_count |-> 0]

NoRlOut == [op |-> "none", caller |-> 0, allowed |-> FALSE, remaining |-> 0,
            fail |-> "none", nth |-> 0, at |-> NoTime]

RlIdle ==
    /\ rl_now = 0
    /\ rl_store = [k \in RlKeys |-> NoKey]
    /\ rl_pc = [c \in 1..NumCallers |-> IdleCaller]
    /\ rl_out = NoRlOut
    /\ rl_win_start = NoTime
    /\ rl_win_calls = 0
    /\ rl_admits = <<>>
    /\ rl_expire_sets = 0

\* -------------------------------------------------------------- Request Gate
NoRequestId == 0

LogEvent(logger_name, event, request_id) ==
    [logger |-> logger_name, event |-> event, request_id |-> request_id]

\* rate_limiter.py 23-30 and audit.py 31-35, the paths the model sends
RATE_EXEMPT_PATHS == {"/health", "/docs"}
AUDIT_EXEMPT_PATHS == {"/health"}
GatePaths == {"/health", "/api/v1/auth/login", "/api/v1/transactions"}

\* what the route does with the request: answers, rejects it, or raises
GateOutcomes == {"ok", "rejected", "crash"}

DownstreamResult(status_code, raised, log) ==
    [status_code |-> status_code, raised |-> raised, log |-> log]

\* the routed handler with its dependencies: login writes its audit event
\* through log_authentication, a bearer route rejects through decode_token,
\* and neither is given the request id
Downstream(path, outcome) ==
    LET own == IF path = "/api/v1/auth/login" /\ outcome # "crash"
               THEN <<LogEvent("audit", "authentication_attempt",
                               NoRequestId)>>
               ELSE IF path = "/api/v1/transactions" /\ outcome = "rejected"
               THEN <<LogEvent("app.core.security", "JWT decode error",
                               NoRequestId)>>
               ELSE <<>>
    IN  IF path \in {"/health", "/docs"} \/ outcome = "ok"
        THEN DownstreamResult(200, FALSE, own)
        ELSE IF outcome = "rejected"
        THEN DownstreamResult(401, FALSE, own)
        ELSE DownstreamResult(500, TRUE, own)

NoCheck == [called |-> FALSE, allowed |-> FALSE, remaining |-> 0,
            failed |-> FALSE]

Check(result) ==
    [called |-> TRUE, allowed |-> result.allowed,
     remaining |-> result.remaining, failed |-> result.failed]

CheckLog(result) ==
    IF result.failed
    THEN <<LogEvent("app.core.redis", "Rate limit check error", NoRequestId)>>
    ELSE <<>>

GateResult(status_code, raised, downstream, minute, hour, store, log) ==
    [status_code |-> status_code, raised |-> raised,
     downstream |-> downstream, minute |-> minute, hour |-> hour,
     store |-> store, log |-> log]

\* variant: the answer of the hourly check is not looked at
RateLimitMiddleware_dispatch_minute_only(store, path, fail_minute, fail_hour, outcome) ==
    LET minute == RateLimiter_is_allowed(store, "minute:ip", GateMinuteLimit,
                                         MINUTE_WINDOW, fail_minute)
        hour == RateLimiter_is_allowed(minute.store, "hour:ip", GateHourLimit,
                                       HOUR_WINDOW, fail_hour)
        down == Downstream(path, outcome)
    IN  IF path \in RATE_EXEMPT_PATHS
        THEN GateResult(down.status_code, down.raised, TRUE, NoCheck, NoCheck,
                        store, down.log)
        ELSE IF ~minute.allowed
        THEN GateResult(429, FALSE, FALSE, Check(minute), NoCheck,
                        minute.store,
                        CheckLog(minute) \o
                        <<LogEvent("app.middleware.rate_limiter",
                                   "Rate limit exceeded (per minute)",
                                   NoRequestId)>>)
        ELSE GateResult(down.status_code, down.raised, TRUE, Check(minute),
                        Check(hour), hour.store,
                        CheckLog(minute) \o CheckLog(hour) \o down.log)

\* rate_limiter.py 32-105
RateLimitMiddleware_dispatch(store, path, fail_minute, fail_hour, outcome) ==
    LET minute == RateLimiter_is_allowed(store, "minute:ip", GateMinuteLimit,
                                         MINUTE_WINDOW, fail_minute)
        hour == RateLimiter_is_allowed(minute.store, "hour:ip", GateHourLimit,
                                       HOUR_WINDOW, fail_hour)
        down == Downstream(path, outcome)
    IN  IF path \in RATE_EXEMPT_PATHS
        THEN GateResult(down.status_code, down.raised, TRUE, NoCheck, NoCheck,
                        store, down.log)
        ELSE IF ~minute.allowed
        THEN GateResult(429, FALSE, FALSE, Check(minute), NoCheck,
                        minute.store,
                        CheckLog(minute) \o
                        <<LogEvent("app.middleware.rate_limiter",
                                   "Rate limit exceeded (per minute)",
                                   NoRequestId)>>)
        ELSE IF ~hour.allowed
        THEN GateResult(429, FALSE, FALSE, Check(minute), Check(hour),
                        hour.store,
                        CheckLog(minute) \o CheckLog(hour) \o
                        <<LogEvent("app.middleware.rate_limiter",
                                   "Rate limit exceeded (per hour)",
                                   NoRequestId)>>)
        ELSE GateResult(down.status_code, down.raised, TRUE, Check(minute),
                        Check(hour), hour.store,
                        CheckLog(minute) \o CheckLog(hour) \o down.log)

\* audit.py 36-142 around the rate limiter; an exception that leaves the
\* middleware is answered by the handler of main.py 135-151, whose response
\* does not pass through the middleware again
AuditMiddleware_dispatch(store, request_id, path, fail_minute, fail_hour, outcome) ==
    LET inner == RateLimitMiddleware_dispatch(store, path, fail_minute,
                                              fail_hour, outcome)
        before == <<LogEvent("app.middleware.audit", "API request",
                             request_id)>>
        after == IF inner.raised
                 THEN <<LogEvent("app.middleware.audit", "API request failed",
                                 request_id),
                        LogEvent("app.main", "Unhandled exception",
                                 NoRequestId)>>
                 ELSE <<LogEvent("app.middleware.audit", "API response",
                                 request_id)>>
    IN  [op |-> "request", path |-> path, request_id |-> request_id,
         header_request_id |->
             IF inner.raised THEN NoRequestId ELSE request_id,
         status_code |-> inner.status_code, raised |-> inner.raised,
         downstream |-> inner.downstream,
         minute |-> inner.minute, hour |-> inner.hour,
         store |-> inner.store,
         log |-> IF path \in AUDIT_EXEMPT_PATHS THEN inner.log
                 ELSE before \o inner.log \o after]

NoGateOut == [op |-> "none", path |-> "", request_id |-> NoRequestId,
              header_request_id |-> NoRequestId, status_code |-> 0,
              raised |-> FALSE, downstream |-> FALSE, minute |-> NoCheck,
              hour |-> NoCheck]

GateIdle ==
    /\ gt_out = NoGateOut
    /\ gt_log = <<>>
    /\ gt_ids = 0

\* ------------------------------------------------ Session Store on its own
\* the entry of a session id in Redis: absent, or a record with the second
\* at which it expires
NoEntry == [present |-> FALSE, data |-> "", expires |-> NoTime]

Entry(data, expires) == [present |-> TRUE, data |-> data, expires |-> expires]

\* no ttl argument given (None, or 0, which is falsy)
NoTtl == 0

\* Redis drops the entry once its time to live has run out
Expire(entry, t) ==
    IF entry.present /\ entry.expires # NoTime /\ t >= entry.expires
    THEN NoEntry ELSE entry

\* TTL key: -2 for a key that does not exist, -1 for one without expiry
redis_ttl(entry) ==
    LET live == Expire(entry, ss_now) IN
    IF ~live.present THEN -2
    ELSE IF live.expires = NoTime THEN -1
    ELSE live.expires - ss_now

\* SETEX key seconds value
redis_setex(seconds, value) == Entry(value, ss_now + seconds)

SsResult(ok, entry) == [ok |-> ok, entry |-> entry]

\* redis.py 208-224 with its ttl argument
SessionStore_create_ttl(entry, data, ttl, fail) ==
    IF fail THEN SsResult(FALSE, entry)
    ELSE SsResult(TRUE,
                  redis_setex(IF ttl # NoTtl THEN ttl
                              ELSE SESSION_DEFAULT_TTL, data))

\* redis.py 226-238: the record, or None
SessionStore_get(entry, fail) ==
    LET live == Expire(entry, ss_now) IN
    IF fail \/ ~live.present THEN SsResult(FALSE, NoEntry)
    ELSE SsResult(TRUE, live)

\* the second half of update: SETEX with the time to live read before; Redis
\* refuses a time to live of 0
SessionStore_update_write(entry, data, ttl, fail) ==
    IF fail \/ ttl = 0 THEN SsResult(FALSE, Expire(entry, ss_now))
    ELSE SsResult(TRUE, redis_setex(ttl, data))

\* variant: the record is written with the default time to live
SessionStore_update_default_ttl(entry, data, fail) ==
    IF fail \/ redis_ttl(entry) < 0 THEN SsResult(FALSE, Expire(entry, ss_now))
    ELSE SsResult(TRUE, redis_setex(SESSION_DEFAULT_TTL, data))

\* redis.py 240-256, run without another caller or the clock in between
SessionStore_update(entry, data, fail) ==
    LET ttl == redis_ttl(entry) IN
    IF fail \/ ttl < 0 THEN SsResult(FALSE, Expire(entry, ss_now))
    ELSE SessionStore_update_write(entry, data, ttl, FALSE)

\* redis.py 258-268
SessionStore_delete(entry, fail) ==
    IF fail THEN SsResult(FALSE, Expire(entry, ss_now))
    ELSE SsResult(TRUE, NoEntry)

\* redis.py 270-280: EXPIRE does nothing on a key that does not exist, and
\* refresh reports True all the same
SessionStore_refresh(entry, ttl, fail) ==
    LET live == Expire(entry, ss_now) IN
    IF fail THEN SsResult(FALSE, live)
    ELSE IF ~live.present THEN SsResult(TRUE, live)
    ELSE SsResult(TRUE,
                  [live EXCEPT !.expires =
                      ss_now + (IF ttl # NoTtl THEN ttl
                                ELSE SESSION_DEFAULT_TTL)])

IdleUpdate == [pc |-> "idle", ttl |-> 0, data |-> ""]

SsOut(op, ok, data) == [op |-> op, ok |-> ok, data |-> data]

NoSsOut == [op |-> "none", ok |-> FALSE, data |-> ""]

SsIdle ==
    /\ ss_now = 0
    /\ ss_store = NoEntry
    /\ ss_pc = [c \in 1..NumCallers |-> IdleUpdate]
    /\ ss_out = NoSsOut
    /\ ss_gone = FALSE

\* ------------------------------------------------------ concurrent logins
\* a request in flight holds the columns of the account row it has read
IdleLogin == [pc |-> "idle", failed_login_attempts |-> 0,
              locked_until |-> NoTime]

\* the account row as the request sees it: the columns it read when it
\* selected the row
RowAsRead(row, local) ==
    [row EXCEPT !.failed_login_attempts = local.failed_login_attempts,
                !.locked_until = local.locked_until]

\* variant: the commit writes locked_until as it was read as well
CommitFailedPassword_whole_row(row, local) ==
    LET mine == FailedPassword(RowAsRead(row, local)) IN
    [row EXCEPT !.failed_login_attempts = mine.failed_login_attempts,
                !.last_failed_login = mine.last_failed_login,
                !.locked_until = mine.locked_until]

\* auth.py 194-207: the wrong-password branch computes the new values from
\* the row as read, and the commit writes the columns that were assigned
CommitFailedPassword(row, local) ==
    LET mine == FailedPassword(RowAsRead(row, local)) IN
    [row EXCEPT !.failed_login_attempts = mine.failed_login_attempts,
                !.last_failed_login = mine.last_failed_login,
                !.locked_until = IF mine.locked_until # local.locked_until
                                 THEN mine.locked_until
                                 ELSE row.locked_until]

\* the attempts after which the persistent caller has locked the account
\* at the latest: each attempt of another caller can put the counter back
\* to 1 once
LockoutBound ==
    MAX_FAILED_ATTEMPTS + (MAX_FAILED_ATTEMPTS - 2) * MaxOtherAttempts

\* caller 0 is the persistent one
LoginCallers == 0..NumOthers

ClIdle ==
    /\ cl_pc = [c \in LoginCallers |-> IdleLogin]
    /\ cl_done = 0
    /\ cl_left = MaxOtherAttempts

\* ------------------------------------------------------------------ masking
\* a string is the sequence of its characters
Stars(n) == [i \in 1..n |-> "*"]

\* s[:k] and s[-k:] of Python, for k > 0
Prefix(str, k) == SubSeq(str, 1, IF k < Len(str) THEN k ELSE Len(str))

Suffix(str, k) ==
    SubSeq(str, (IF k < Len(str) THEN Len(str) - k ELSE 0) + 1, Len(str))

\* security.py 234-239
mask_account_number(account) ==
    IF Len(account) <= 4 THEN Stars(Len(account))
    ELSE Stars(Len(account) - 4) \o Suffix(account, 4)

\* security.py 241-246
mask_phone_number(phone) ==
    IF Len(phone) <= 4 THEN Stars(Len(phone))
    ELSE Prefix(phone, 3) \o Stars(Len(phone) - 6) \o Suffix(phone, 3)

NoMask == [op |-> "none", out |-> <<>>]

MkIdle ==
    /\ mk_in = <<>>
    /\ mk_out = NoMask

\* ------------------------------------------------------------ specification
\* The account as register leaves it (auth.py 82-122) at time 0, with the
\* status an administrator may have given it since.
NewUser(status) ==
    [email |-> REGISTERED_EMAIL,
     hashed_password |-> hash_password(REGISTERED_PASSWORD),
     status |-> status,
     mfa_enabled |-> FALSE, mfa_secret |-> NoSecret, backup_codes |-> NoSecret,
     failed_login_attempts |-> 0, last_failed_login |-> NoTime,
     locked_until |-> NoTime,
     current_session_id |-> 1, last_login |-> 0, last_activity |-> NoTime]

Init ==
    /\ now = 0
    /\ \E status \in InitStatuses : user = NewUser(status)
    /\ sessions = [s \in {1} |-> [user_id |-> USER_ID,
                                  expires |-> SESSION_DEFAULT_TTL \div 60]]
    /\ next_sid = 2
    /\ next_secret = 1
    /\ held = [type |-> "access", sub |-> USER_ID,
               exp |-> JWT_ACCESS_TOKEN_EXPIRE_MINUTES, iat |-> 0]
    /\ req = NoRequest
    /\ resp = Message("register", "")
    /\ audit = <<>>
    /\ calls = {}
    /\ wrong_run = 0
    /\ run_end = NoTime
    /\ TokIdle
    /\ RlIdle
    /\ GateIdle
    /\ SsIdle
    /\ ClIdle
    /\ MkIdle

Next ==
    \/ LoginStep
    \/ EnableMfa
    \/ \E code \in CodeInputs : VerifyMfa(code)
    \/ DisableMfa
    \/ \E d \in TickSteps : Tick(d)

Spec == Init /\ [][Next]_vars

\* ------------------------------------------- specification: token service
\* the claim sets callers hand to the token service; the last three carry a
\* key the service writes itself
ClaimSets ==
    {UserClaims,
     [sub |-> Str(USER_ID)],
     [email |-> Str(REGISTERED_EMAIL)],
     [sub |-> Str(USER_ID), type |-> Str("refresh")],
     [sub |-> Str(USER_ID), exp |-> Num(MaxTokTime)],
     [sub |-> Str(USER_ID), iat |-> Num(NoTime)]}

Deltas == {NoDelta, StaleMinutes}

\* a quarter of an hour, the access lifetime, the refresh lifetime
RefreshLifetime == JWT_REFRESH_TOKEN_EXPIRE_DAYS * 24 * 60

TokTickSteps == {StaleMinutes, JWT_ACCESS_TOKEN_EXPIRE_MINUTES,
                 RefreshLifetime}

Issued(token) == TkOut("issue", TokenOk(EmptyClaims, token))

TkIssueAccess(data, expires_delta) ==
    LET token == JWTService_create_access_token(data, expires_delta) IN
    /\ tk_token' = token
    /\ tk_minted' = [kind |-> "access", data |-> data,
                     delta |-> expires_delta, at |-> now]
    /\ tk_out' = Issued(token)
    /\ UNCHANGED <<now, authVars, rlVars, gateVars, extVars>>

TkIssueRefresh(data) ==
    LET token == JWTService_create_refresh_token(data) IN
    /\ tk_token' = token
    /\ tk_minted' = [kind |-> "refresh", data |-> data, delta |-> NoDelta,
                     at |-> now]
    /\ tk_out' = Issued(token)
    /\ UNCHANGED <<now, authVars, rlVars, gateVars, extVars>>

\* a token whose signature was not made with the key
TkTamper ==
    /\ tk_token.sig = "valid"
    /\ tk_token' = [tk_token EXCEPT !.sig = "forged"]
    /\ tk_out' = Issued(tk_token')
    /\ UNCHANGED <<now, authVars, tk_minted, rlVars, gateVars, extVars>>

TkDecode ==
    /\ tk_token # NoJwt
    /\ tk_out' = TkOut("decode", JWTService_decode_token(tk_token))
    /\ UNCHANGED <<now, authVars, tk_token, tk_minted, rlVars, gateVars, extVars>>

TkAuthenticate ==
    /\ tk_token # NoJwt
    /\ tk_out' = TkOut("auth", bearer_get_current_user(tk_token))
    /\ UNCHANGED <<now, authVars, tk_token, tk_minted, rlVars, gateVars, extVars>>

TkRefresh ==
    /\ tk_token # NoJwt
    /\ tk_out' = TkOut("refresh", refresh_token_endpoint(tk_token))
    /\ UNCHANGED <<now, authVars, tk_token, tk_minted, rlVars, gateVars, extVars>>

\* short steps are taken in the first MaxTokOffset minutes after a multiple
\* of the refresh lifetime only
TkTick(d) ==
    /\ now + d <= MaxTokTime
    /\ d < RefreshLifetime => (now % RefreshLifetime) + d <= MaxTokOffset
    /\ now' = now + d
    /\ UNCHANGED <<authVars, tokVars, rlVars, gateVars, extVars>>

TokNext ==
    \/ \E data \in ClaimSets, delta \in Deltas : TkIssueAccess(data, delta)
    \/ \E data \in ClaimSets : TkIssueRefresh(data)
    \/ TkTamper
    \/ TkDecode
    \/ TkAuthenticate
    \/ TkRefresh
    \/ \E d \in TokTickSteps : TkTick(d)

TokenSpec == Init /\ [][TokNext]_vars

\* -------------------------------------------- specification: rate limiter
ClientKey == RateLimiter_make_key("client", RlWindow)

Callers == 1..NumCallers

RlOut(op, caller, allowed, remaining, fail, nth) ==
    [op |-> op, caller |-> caller, allowed |-> allowed,
     remaining |-> remaining, fail |-> fail, nth |-> nth, at |-> rl_now]

\* the EXPIRE commands applied to the key since it came to exist, counted up
\* to 3
ExpireSets(current_count, applied) ==
    LET before == IF Purge(rl_store, rl_now)[ClientKey] = NoKey
                  THEN 0 ELSE rl_expire_sets
        after == IF applied /\ current_count = 0 THEN before + 1 ELSE before
    IN  IF after > 3 THEN 3 ELSE after

\* the admissions of the last window length, this instant included
RecentAdmits == SelectSeq(rl_admits, LAMBDA t : t >= rl_now - RlWindow)

\* one caller at a time, the backend answering every call: the whole of
\* is_allowed is one step.  The call is the n-th of the window that the
\* first call after the end of the last window opened.
SeqIsAllowed ==
    LET res == RateLimiter_is_allowed(rl_store, "client", RlLimit, RlWindow,
                                      "none")
        opens == rl_win_start = NoTime \/ rl_now >= rl_win_start + RlWindow
        nth == IF opens THEN 1
               ELSE IF rl_win_calls > RlLimit THEN rl_win_calls
               ELSE rl_win_calls + 1
    IN  /\ rl_store' = res.store
        /\ rl_win_start' = IF opens THEN rl_now ELSE rl_win_start
        /\ rl_win_calls' = nth
        /\ rl_out' = RlOut("is_allowed", 1, res.allowed, res.remaining,
                           "none", nth)
        /\ rl_admits' = IF res.allowed /\ Len(RecentAdmits) <= 2 * RlLimit
                        THEN Append(RecentAdmits, rl_now) ELSE RecentAdmits
        /\ rl_expire_sets' = ExpireSets(redis_get(rl_store, ClientKey),
                                        res.allowed)
        /\ UNCHANGED <<now, authVars, tokVars, rl_now, rl_pc, gateVars, extVars>>

SeqGetRemaining ==
    /\ rl_out' = RlOut("get_remaining", 1, TRUE,
                       RateLimiter_get_remaining(rl_store, "client", RlLimit,
                                                 RlWindow, FALSE),
                       "none", rl_win_calls)
    /\ UNCHANGED <<now, authVars, tokVars, rl_now, rl_store, rl_pc,
                   rl_win_start, rl_win_calls, rl_admits, rl_expire_sets,
                   gateVars, extVars>>

\* a second passes; Redis drops the keys whose time to live has run out
RlTick ==
    /\ rl_now < MaxRlTime
    /\ rl_now' = rl_now + 1
    /\ rl_store' = Purge(rl_store, rl_now + 1)
    /\ rl_expire_sets' = IF Purge(rl_store, rl_now + 1)[ClientKey] = NoKey
                         THEN 0 ELSE rl_expire_sets
    /\ rl_admits' = SelectSeq(rl_admits,
                              LAMBDA t : t >= rl_now + 1 - RlWindow)
    /\ UNCHANGED <<now, authVars, tokVars, rl_pc, rl_out, rl_win_start,
                   rl_win_calls, gateVars, extVars>>

RlSeqNext ==
    \/ SeqIsAllowed
    \/ SeqGetRemaining
    \/ RlTick

RlSeqSpec == Init /\ [][RlSeqNext]_vars

\* several callers: GET is one step and the MULTI/EXEC pipeline another, and
\* each backend call may fail
ConcRead(c, fail) ==
    LET current_count == redis_get(rl_store, ClientKey) IN
    /\ rl_pc[c].pc = "idle"
    /\ IF fail
       THEN /\ rl_out' = RlOut("is_allowed", c, TRUE, RlLimit, "get", 0)
            /\ UNCHANGED rl_pc
       ELSE IF RateLimiter_over_limit(current_count, RlLimit)
       THEN /\ rl_out' = RlOut("is_allowed", c, FALSE, 0, "none", 0)
            /\ UNCHANGED rl_pc
       ELSE /\ rl_pc' = [rl_pc EXCEPT ![c] =
                            [pc |-> "read", current_count |-> current_count]]
            /\ UNCHANGED rl_out
    /\ UNCHANGED <<now, authVars, tokVars, rl_now, rl_store, rl_win_start,
                   rl_win_calls, rl_admits, rl_expire_sets, gateVars, extVars>>

ConcExec(c, fail) ==
    LET current_count == rl_pc[c].current_count
        written == RateLimiter_pipeline(rl_store, ClientKey, current_count,
                                        RlWindow)
    IN  /\ rl_pc[c].pc = "read"
        /\ fail \in {"none", "execute", "reply"}
        /\ rl_store' = IF fail = "execute" THEN rl_store ELSE written
        /\ rl_expire_sets' = ExpireSets(current_count, fail # "execute")
        /\ rl_out' = IF fail = "none"
                     THEN RlOut("is_allowed", c, TRUE,
                                RlLimit - current_count - 1, "none", 0)
                     ELSE RlOut("is_allowed", c, TRUE, RlLimit, fail, 0)
        /\ rl_pc' = [rl_pc EXCEPT ![c] = IdleCaller]
        /\ UNCHANGED <<now, authVars, tokVars, rl_now, rl_win_start,
                       rl_win_calls, rl_admits, gateVars, extVars>>

ConcGetRemaining(c, fail) ==
    /\ rl_pc[c].pc = "idle"
    /\ rl_out' = RlOut("get_remaining", c, TRUE,
                       RateLimiter_get_remaining(rl_store, "client", RlLimit,
                                                 RlWindow, fail),
                       IF fail THEN "get" ELSE "none", 0)
    /\ UNCHANGED <<now, authVars, tokVars, rl_now, rl_store, rl_pc,
                   rl_win_start, rl_win_calls, rl_admits, rl_expire_sets,
                   gateVars, extVars>>

RlConcNext ==
    \/ \E c \in Callers, fail \in BOOLEAN : ConcRead(c, fail)
    \/ \E c \in Callers, fail \in RlFailures : ConcExec(c, fail)
    \/ \E c \in Callers, fail \in BOOLEAN : ConcGetRemaining(c, fail)
    \/ RlTick

RlConcSpec == Init /\ [][RlConcNext]_vars

\* -------------------------------------------- specification: request gate
GateTickSteps == {MINUTE_WINDOW, HOUR_WINDOW}

\* one request through the audit middleware, the rate limiter and the route
GateRequest(path, fail_minute, fail_hour, outcome) ==
    \E r \in {AuditMiddleware_dispatch(rl_store, gt_ids + 1, path,
                                       fail_minute, fail_hour, outcome)} :
        /\ gt_ids < MaxRequests
        /\ gt_ids' = gt_ids + 1
        /\ rl_store' = r.store
        /\ gt_log' = r.log
        /\ gt_out' = [k \in DOMAIN NoGateOut |-> r[k]]
        /\ UNCHANGED <<now, authVars, tokVars, rl_now, rl_pc, rl_out,
                       rl_win_start, rl_win_calls, rl_admits, rl_expire_sets,
                       extVars>>

\* steps of a minute are taken in the first MaxGateOffset seconds of an hour
\* only
GateTick(d) ==
    /\ rl_now + d <= MaxGateTime
    /\ d < HOUR_WINDOW => (rl_now % HOUR_WINDOW) + d <= MaxGateOffset
    /\ rl_now' = rl_now + d
    /\ rl_store' = Purge(rl_store, rl_now + d)
    /\ UNCHANGED <<now, authVars, tokVars, rl_pc, rl_out, rl_win_start,
                   rl_win_calls, rl_admits, rl_expire_sets, gateVars, extVars>>

GateNext ==
    \/ \E path \in GatePaths, fail_minute \in RlFailures,
          fail_hour \in RlFailures, outcome \in GateOutcomes :
              GateRequest(path, fail_minute, fail_hour, outcome)
    \/ \E d \in GateTickSteps : GateTick(d)

GateSpec == Init /\ [][GateNext]_vars

\* ------------------------------------------- specification: session store
SsData == {"d1", "d2"}

TtlInputs == {NoTtl, ShortTtl}

SsCreate(data, ttl, fail) ==
    \E r \in {SessionStore_create_ttl(ss_store, data, ttl, fail)} :
        /\ ss_store' = r.entry
        /\ ss_out' = SsOut("create", r.ok, data)
        /\ ss_gone' = IF r.ok THEN FALSE ELSE ss_gone
        /\ UNCHANGED <<now, authVars, tokVars, rlVars, gateVars, ss_now,
                       ss_pc, clVars, mkVars>>

SsGet(fail) ==
    \E r \in {SessionStore_get(ss_store, fail)} :
        /\ ss_out' = SsOut("get", r.ok, r.entry.data)
        /\ UNCHANGED <<now, authVars, tokVars, rlVars, gateVars, ss_now,
                       ss_store, ss_pc, ss_gone, clVars, mkVars>>

SsUpdate(data, fail) ==
    \E r \in {SessionStore_update(ss_store, data, fail)} :
        /\ ss_store' = r.entry
        /\ ss_out' = SsOut("update", r.ok, data)
        /\ UNCHANGED <<now, authVars, tokVars, rlVars, gateVars, ss_now,
                       ss_pc, ss_gone, clVars, mkVars>>

SsDelete(fail) ==
    \E r \in {SessionStore_delete(ss_store, fail)} :
        /\ ss_store' = r.entry
        /\ ss_out' = SsOut("delete", r.ok, "")
        /\ ss_gone' = IF r.ok THEN TRUE ELSE ss_gone
        /\ UNCHANGED <<now, authVars, tokVars, rlVars, gateVars, ss_now,
                       ss_pc, clVars, mkVars>>

SsRefresh(ttl, fail) ==
    \E r \in {SessionStore_refresh(ss_store, ttl, fail)} :
        /\ ss_store' = r.entry
        /\ ss_out' = SsOut("refresh", r.ok, "")
        /\ UNCHANGED <<now, authVars, tokVars, rlVars, gateVars, ss_now,
                       ss_pc, ss_gone, clVars, mkVars>>

\* a second passes; Redis drops the entry whose time to live has run out
SsTick ==
    /\ ss_now < MaxSsTime
    /\ ss_now' = ss_now + 1
    /\ ss_store' = Expire(ss_store, ss_now + 1)
    /\ ss_gone' = (ss_gone \/ (ss_store.present /\ ~ss_store'.present))
    /\ UNCHANGED <<now, authVars, tokVars, rlVars, gateVars, ss_pc, ss_out,
                   clVars, mkVars>>

SessSeqNext ==
    \/ \E data \in SsData, ttl \in TtlInputs, fail \in BOOLEAN :
          SsCreate(data, ttl, fail)
    \/ \E fail \in BOOLEAN : SsGet(fail)
    \/ \E data \in SsData, fail \in BOOLEAN : SsUpdate(data, fail)
    \/ \E fail \in BOOLEAN : SsDelete(fail)
    \/ \E ttl \in TtlInputs, fail \in BOOLEAN : SsRefresh(ttl, fail)
    \/ SsTick

SessSeqSpec == Init /\ [][SessSeqNext]_vars

\* update beside other callers: TTL is one step and SETEX another
SsUpdateRead(c, data, fail) ==
    LET ttl == redis_ttl(ss_store) IN
    /\ ss_pc[c].pc = "idle"
    /\ IF fail \/ ttl < 0
       THEN /\ ss_out' = SsOut("update", FALSE, data)
            /\ UNCHANGED ss_pc
       ELSE /\ ss_pc' = [ss_pc EXCEPT ![c] =
                            [pc |-> "ttl", ttl |-> ttl, data |-> data]]
            /\ UNCHANGED ss_out
    /\ UNCHANGED <<now, authVars, tokVars, rlVars, gateVars, ss_now,
                   ss_store, ss_gone, clVars, mkVars>>

SsUpdateWrite(c, fail) ==
    /\ ss_pc[c].pc = "ttl"
    /\ \E r \in {SessionStore_update_write(ss_store, ss_pc[c].data,
                                           ss_pc[c].ttl, fail)} :
          /\ ss_store' = r.entry
          /\ ss_out' = SsOut("update", r.ok, ss_pc[c].data)
    /\ ss_pc' = [ss_pc EXCEPT ![c] = IdleUpdate]
    /\ UNCHANGED <<now, authVars, tokVars, rlVars, gateVars, ss_now,
                   ss_gone, clVars, mkVars>>

SessConcNext ==
    \/ \E fail \in BOOLEAN : SsCreate("d1", ShortTtl, fail)
    \/ \E c \in Callers, fail \in BOOLEAN : SsUpdateRead(c, "d2", fail)
    \/ \E c \in Callers, fail \in BOOLEAN : SsUpdateWrite(c, fail)
    \/ \E fail \in BOOLEAN : SsDelete(fail)
    \/ SsTick

SessConcSpec == Init /\ [][SessConcNext]_vars

\* ------------------------------------------------- specification: masking
MaskAlphabet == {"1", "2"}

MaskInputs == UNION {[1..n -> MaskAlphabet] : n \in 0..MaxMaskLen}

MaskAccount(account) ==
    /\ mk_in' = account
    /\ mk_out' = [op |-> "mask_account_number",
                  out |-> mask_account_number(account)]
    /\ UNCHANGED <<now, authVars, tokVars, rlVars, gateVars, ssVars, clVars>>

MaskPhone(phone) ==
    /\ mk_in' = phone
    /\ mk_out' = [op |-> "mask_phone_number",
                  out |-> mask_phone_number(phone)]
    /\ UNCHANGED <<now, authVars, tokVars, rlVars, gateVars, ssVars, clVars>>

MaskNext ==
    \/ \E account \in MaskInputs : MaskAccount(account)
    \/ \E phone \in MaskInputs : MaskPhone(phone)

MaskSpec == Init /\ [][MaskNext]_vars

\* --------------------------------------- specification: concurrent logins
\* auth.py 158-189: the request selects the row; a locked account is
\* rejected at once, otherwise the password is verified next.  The
\* persistent caller goes on until the account is locked.
ClRead(c) ==
    /\ cl_pc[c].pc = "idle"
    /\ IF c = 0 THEN cl_done <= LockoutBound ELSE cl_left > 0
    /\ ~is_locked(user)
    /\ cl_pc' = [cl_pc EXCEPT ![c] =
                    [pc |-> "read",
                     failed_login_attempts |-> user.failed_login_attempts,
                     locked_until |-> user.locked_until]]
    /\ cl_left' = IF c = 0 THEN cl_left ELSE cl_left - 1
    /\ UNCHANGED <<now, user, sessions, next_sid, next_secret, held, req,
                   resp, audit, calls, wrong_run, run_end, tokVars, rlVars,
                   gateVars, ssVars, cl_done, mkVars>>

\* auth.py 191-219: the password is wrong; the counter is raised from the
\* value read and the row is committed
ClWrite(c) ==
    /\ cl_pc[c].pc = "read"
    /\ user' = CommitFailedPassword(user, cl_pc[c])
    /\ cl_pc' = [cl_pc EXCEPT ![c] = IdleLogin]
    /\ cl_done' = IF c = 0 THEN cl_done + 1 ELSE cl_done
    /\ resp' = HTTPException("login", 401, "Invalid credentials")
    /\ UNCHANGED <<now, sessions, next_sid, next_secret, held, req, audit,
                   calls, wrong_run, run_end, tokVars, rlVars, gateVars,
                   ssVars, cl_left, mkVars>>

ConcLoginNext ==
    \/ \E c \in LoginCallers : ClRead(c)
    \/ \E c \in LoginCallers : ClWrite(c)

ConcLoginSpec == Init /\ [][ConcLoginNext]_vars

\* ----------------------------------------- specification: bearer, logout
\* one caller logs in with the right or a wrong password, logs out, and
\* calls protected routes
BearerNext ==
    \/ \E password \in Passwords :
          Login(REGISTERED_EMAIL, password, NoCode, TRUE)
    \/ \E redis_ok \in BOOLEAN : Logout(redis_ok)
    \/ \E token \in BearerTokens : Authenticate(token)
    \/ \E d \in TickSteps : Tick(d)

BearerSpec == Init /\ [][BearerNext]_vars

\* ------------------------------------------------------------- properties
\* The conditions of the claims, spelled out on the account row and the
\* request rather than through the operators the handlers use.
\* the step is a login attempt with the request that req' records
LoginAttempt ==
    /\ req'.op = "login"
    /\ \E redis_ok \in BOOLEAN :
          Login(req'.email, req'.password, req'.mfa_code, redis_ok)

LockedNow == user.locked_until # NoTime /\ now < user.locked_until

WindowElapsed == user.locked_until # NoTime /\ now >= user.locked_until

ForAccount == req'.email = REGISTERED_EMAIL

RightPassword == req'.password = REGISTERED_PASSWORD

CodeMatches(code) ==
    /\ code.secret = user.mfa_secret
    /\ code.step >= TotpStep(now) - 1
    /\ code.step <= TotpStep(now) + 1

IsLockedError(r) == r.status_code = 403 /\ r.detail = "Account locked until"

IsInvalidCredentials(r) ==
    r.status_code = 401 /\ r.detail = "Invalid credentials"

Usable(token) == token.type \in {"access", "refresh"}

IssuesTokens(r) == Usable(r.access_token) \/ Usable(r.refresh_token)

\* C1: while locked_until lies in the future, a login for the account is
\* rejected as locked whatever the password and the MFA code, without
\* evaluating the password and without issuing tokens.
C1_LockedRejectsAll ==
    [][(LoginAttempt /\ ForAccount /\ LockedNow)
        => /\ IsLockedError(resp')
           /\ ~IssuesTokens(resp')
           /\ "verify_password" \notin calls']_vars

C1_Witness ==
    /\ req.op = "login"
    /\ req.password = REGISTERED_PASSWORD
    /\ req.mfa_code # NoCode
    /\ IsLockedError(resp)
    /\ LockedNow

\* C2: from 0 failures, wrong passwords 1 to 4 in a row leave locked_until
\* unset, the 5th sets it to the time of that attempt plus 30 minutes, and
\* until then every login for the account is rejected as locked.
C2_FifthFailureLocks ==
    [][(LoginAttempt /\ ForAccount)
        => /\ (wrong_run' \in 1..4 => user'.locked_until = NoTime)
           /\ (wrong_run = 4 /\ wrong_run' = 5
                 => user'.locked_until = now + 30)
           /\ (wrong_run = 5 /\ now < run_end + 30
                 => IsLockedError(resp') /\ ~IssuesTokens(resp'))]_vars

C2_Witness ==
    /\ wrong_run = 5
    /\ now > run_end
    /\ now < run_end + 30
    /\ req.op = "login"
    /\ req.password = REGISTERED_PASSWORD
    /\ IsLockedError(resp)

\* C3 as stated: the response to the 5th wrong password in a row is the
\* locked-account error.
C3_FifthIsLockedError ==
    [][(LoginAttempt /\ ForAccount /\ wrong_run = 4 /\ wrong_run' = 5)
        => IsLockedError(resp')]_vars

\* C3 amended: the response to the 5th wrong password in a row is the
\* invalid-credentials error, as for the first four, while that attempt sets
\* locked_until; the locked-account error answers the attempts after it.
C3_FifthIsInvalidCredentials ==
    [][(LoginAttempt /\ ForAccount)
        => /\ (wrong_run \in 0..4 /\ wrong_run' = wrong_run + 1
                 => IsInvalidCredentials(resp'))
           /\ (wrong_run = 4 /\ wrong_run' = 5
                 => user'.locked_until # NoTime /\ now < user'.locked_until)
           /\ (wrong_run = 5 /\ now = run_end => IsLockedError(resp'))]_vars

C3_Witness ==
    /\ wrong_run = 5
    /\ run_end = now
    /\ req.op = "login"
    /\ IsInvalidCredentials(resp)
    /\ user.locked_until = now + 30

\* C4: a login resets the failure counter and clears locked_until exactly
\* when it succeeds (not locked, password right, account active, MFA
\* satisfied); any other outcome neither lowers the counter nor clears
\* locked_until.
LoginSucceeds ==
    /\ ForAccount
    /\ ~LockedNow
    /\ RightPassword
    /\ user.status = "active"
    /\ user.mfa_enabled => CodeMatches(req'.mfa_code)

C4_ResetOnlyOnSuccess ==
    [][LoginAttempt
        => /\ LoginSucceeds
                => /\ user'.failed_login_attempts = 0
                   /\ user'.locked_until = NoTime
                   /\ resp'.status_code = 200
           /\ ~LoginSucceeds
                => /\ user'.failed_login_attempts >= user.failed_login_attempts
                   /\ (user.locked_until # NoTime
                         => user'.locked_until # NoTime)
                   /\ ~IssuesTokens(resp')]_vars

C4_Witness ==
    /\ req.op = "login"
    /\ IssuesTokens(resp)
    /\ run_end # NoTime
    /\ user.failed_login_attempts = 0
    /\ user.locked_until = NoTime

\* C5 as stated: once the lockout window has elapsed the pre-lockout counter
\* no longer counts, so one wrong password then does not lock the account.
C5_NoRelockAfterWindow ==
    [][(LoginAttempt /\ ForAccount /\ WindowElapsed /\ ~RightPassword)
        => ~(user'.locked_until # NoTime /\ now < user'.locked_until)]_vars

\* C6: login attempts made while the account is locked leave
\* failed_login_attempts, last_failed_login and locked_until as they were.
C6_LockNotExtended ==
    [][(LoginAttempt /\ LockedNow)
        => /\ user'.failed_login_attempts = user.failed_login_attempts
           /\ user'.last_failed_login = user.last_failed_login
           /\ user'.locked_until = user.locked_until]_vars

C6_Witness ==
    /\ req.op = "login"
    /\ req.email = REGISTERED_EMAIL
    /\ req.password # REGISTERED_PASSWORD
    /\ IsLockedError(resp)
    /\ LockedNow
    /\ now > user.last_failed_login
    /\ user.locked_until = user.last_failed_login + 30

\* C7: correct password and no code on an MFA-enabled, unlocked, active
\* account: the response signals mfa_required, carries no usable token, and
\* neither the session store nor the account row changes.
C7_MfaRequiredIssuesNothing ==
    [][(LoginAttempt /\ ForAccount /\ RightPassword /\ ~LockedNow
          /\ user.status = "active" /\ user.mfa_enabled
          /\ req'.mfa_code = NoCode)
        => /\ resp'.mfa_required
           /\ ~IssuesTokens(resp')
           /\ sessions' = sessions
           /\ user' = user]_vars

C7_Witness ==
    /\ req.op = "login"
    /\ req.password = REGISTERED_PASSWORD
    /\ req.mfa_code = NoCode
    /\ user.mfa_enabled
    /\ resp.mfa_required

\* C8: correct password and an invalid MFA code on an MFA-enabled account:
\* the login is rejected and the failure counter and locked_until keep their
\* values.
C8_BadMfaLeavesCounter ==
    [][(LoginAttempt /\ ForAccount /\ RightPassword /\ user.mfa_enabled
          /\ req'.mfa_code # NoCode /\ ~CodeMatches(req'.mfa_code))
        => /\ resp'.status_code # 200
           /\ ~IssuesTokens(resp')
           /\ user'.failed_login_attempts = user.failed_login_attempts
           /\ user'.locked_until = user.locked_until]_vars

C8_Witness ==
    /\ req.op = "login"
    /\ req.password = REGISTERED_PASSWORD
    /\ req.mfa_code # NoCode
    /\ resp.detail = "Invalid MFA code"
    /\ user.failed_login_attempts > 0
    /\ user.locked_until = NoTime

\* C9 as stated: every login attempt emits exactly one authentication audit
\* event, carrying the outcome and the method of the attempt.
C9_OneAuditEventPerLogin ==
    req.op = "login"
        => /\ Len(audit) = 1
           /\ audit[1].event_type = "authentication"
           /\ audit[1].success = IssuesTokens(resp)
           /\ audit[1].method \in {"login", "login_mfa"}

\* C10 as stated: when the session store fails while a login is being
\* completed, the login is rejected and no tokens are issued.
C10_SessionFailureFailsClosed ==
    (req.op = "login" /\ "session_store.create failed" \in calls)
        => /\ resp.status_code # 200
           /\ ~IssuesTokens(resp)

\* ---- token service
SignedUnexpired ==
    /\ tk_token.sig = "valid"
    /\ "exp" \in DOMAIN tk_token.payload
    /\ tk_token.payload["exp"].n >= tk_out.at

\* C11: the bearer dependency rejects every validly signed, unexpired
\* refresh token, and the refresh endpoint rejects every validly signed,
\* unexpired access token.
C11_WrongKindRejected ==
    /\ (tk_out.op = "auth" /\ tk_minted.kind = "refresh" /\ SignedUnexpired)
           => (~tk_out.ok /\ tk_out.status_code = 401)
    /\ (tk_out.op = "refresh" /\ tk_minted.kind = "access" /\ SignedUnexpired)
           => (~tk_out.ok /\ tk_out.status_code = 401
               /\ tk_out.access_token = NoJwt)

C11_Witness ==
    /\ tk_out.op = "refresh"
    /\ tk_minted.kind = "access"
    /\ tk_minted.data = UserClaims
    /\ user.status = "active"
    /\ SignedUnexpired
    /\ tk_out.detail = "Invalid token type"

\* C12: decoding rejects every token, of either kind and rightly signed or
\* not, whose expiry lies before the time of the call; an access token
\* issued at t with the default lifetime is rejected at every time after
\* t + 30 minutes.
C12_ExpiredRejected ==
    /\ (/\ tk_out.op \in {"decode", "auth", "refresh"}
        /\ "exp" \in DOMAIN tk_token.payload
        /\ tk_token.payload["exp"].n < tk_out.at)
           => ~tk_out.ok
    /\ (/\ tk_out.op \in {"decode", "auth"}
        /\ tk_minted.kind = "access"
        /\ tk_minted.delta = NoDelta
        /\ tk_out.at > tk_minted.at + 30)
           => ~tk_out.ok

C12_Witness ==
    /\ tk_out.op = "decode"
    /\ tk_minted.kind = "access"
    /\ tk_minted.delta = NoDelta
    /\ tk_token.sig = "valid"
    /\ tk_out.at > tk_minted.at + 30
    /\ ~tk_out.ok

DecodedAccess ==
    /\ tk_out.op = "decode"
    /\ tk_out.ok
    /\ tk_minted.kind = "access"

ReservedClaims == {"exp", "iat", "type"}

LiveCount ==
    IF rl_store[ClientKey].expires # NoTime
       /\ rl_now >= rl_store[ClientKey].expires
    THEN 0 ELSE rl_store[ClientKey].count

\* C14: with one caller at a time, is_allowed admits exactly the first
\* RlLimit calls of a window, rejects the next one with remaining 0, and
\* admits again once the window has run out.
C14_FirstLimitCallsAdmitted ==
    rl_out.op = "is_allowed" =>
        /\ rl_out.allowed <=> rl_out.nth <= RlLimit
        /\ rl_out.allowed => rl_out.remaining = RlLimit - rl_out.nth
        /\ rl_out.nth = RlLimit + 1 =>
               (~rl_out.allowed /\ rl_out.remaining = 0)

C14_Witness ==
    /\ rl_out.op = "is_allowed"
    /\ rl_out.nth = 1
    /\ rl_out.allowed
    /\ rl_out.at = rl_win_start
    /\ rl_win_start >= RlWindow

\* C15: a call of is_allowed that finds the counter at or over the limit
\* returns (false, 0) and leaves counter and time to live as they are;
\* get_remaining never changes the counter and never returns less than 0.
C15_RejectionAndRemainingReadOnly ==
    [][\A c \in Callers :
          /\ (ConcRead(c, FALSE) /\ LiveCount >= RlLimit)
                 => /\ rl_out'.op = "is_allowed"
                    /\ ~rl_out'.allowed
                    /\ rl_out'.remaining = 0
                    /\ rl_store' = rl_store
          /\ (\E fail \in BOOLEAN : ConcGetRemaining(c, fail))
                 => /\ rl_store' = rl_store
                    /\ rl_out'.remaining >= 0]_vars

C15_Witness ==
    /\ rl_out.op = "is_allowed"
    /\ ~rl_out.allowed
    /\ rl_out.remaining = 0
    /\ rl_out.at = rl_now
    /\ LiveCount > RlLimit

\* C16: the time to live of a counter is set once per window, by the call
\* that makes the first increment; no later call sets or extends it, also
\* when several callers run is_allowed at the same time.
C16_ExpirySetOncePerWindow ==
    [][(/\ LiveCount > 0
        /\ rl_store[ClientKey].expires # NoTime
        /\ \E c \in Callers, fail \in RlFailures : ConcExec(c, fail))
           => /\ rl_store'[ClientKey].expires = rl_store[ClientKey].expires
              /\ rl_expire_sets' = rl_expire_sets]_vars

Limited == gt_out.op = "request" /\ gt_out.path \notin RATE_EXEMPT_PATHS

Rejected(check) == check.called /\ ~check.allowed

\* C18 as written: when a backend call inside is_allowed fails, is_allowed
\* returns (true, limit) without raising and the middleware forwards the
\* request to the route.
C18_FailOpenAlwaysForwards ==
    (Limited /\ (gt_out.minute.failed \/ gt_out.hour.failed)) =>
        /\ gt_out.minute.failed =>
               (gt_out.minute.allowed
                /\ gt_out.minute.remaining = GateMinuteLimit)
        /\ gt_out.hour.failed =>
               (gt_out.hour.allowed /\ gt_out.hour.remaining = GateHourLimit)
        /\ gt_out.downstream

\* C18: when a backend call inside is_allowed fails, is_allowed returns
\* (true, limit) without raising, and the middleware forwards the request to
\* the route unless the check of the other window rejects it.
C18_FailOpenForwardsUnlessOtherRejects ==
    (Limited /\ (gt_out.minute.failed \/ gt_out.hour.failed)) =>
        /\ gt_out.minute.failed =>
               (gt_out.minute.allowed
                /\ gt_out.minute.remaining = GateMinuteLimit)
        /\ gt_out.hour.failed =>
               (gt_out.hour.allowed /\ gt_out.hour.remaining = GateHourLimit)
        /\ gt_out.downstream <=> ~Rejected(gt_out.hour)
        /\ gt_out.raised => gt_out.downstream

C18_Witness ==
    /\ Limited
    /\ gt_out.minute.failed
    /\ gt_out.hour.called
    /\ gt_out.hour.allowed
    /\ gt_out.downstream
    /\ gt_out.status_code = 200

\* C19: on a path that is not exempt the route is invoked only if the
\* per-minute and the per-hour check both admitted the request; if either
\* rejects, the answer is 429 and the route is not invoked.
C19_BothChecksBeforeDownstream ==
    Limited =>
        /\ gt_out.downstream =>
               /\ gt_out.minute.called /\ gt_out.minute.allowed
               /\ gt_out.hour.called /\ gt_out.hour.allowed
        /\ (Rejected(gt_out.minute) \/ Rejected(gt_out.hour)) =>
               (gt_out.status_code = 429 /\ ~gt_out.downstream)

C19_Witness ==
    /\ Limited
    /\ gt_out.minute.allowed
    /\ ~gt_out.minute.failed
    /\ Rejected(gt_out.hour)
    /\ gt_out.status_code = 429
    /\ ~gt_out.downstream

\* C20: one correlation id is made per request, it is attached to the
\* outcome of every request, rejections by the rate limiter and by
\* authentication included, and every log and audit event of the request
\* carries it.
C20_EveryEventCarriesRequestId ==
    gt_out.op = "request" =>
        /\ gt_out.request_id = gt_ids
        /\ gt_out.header_request_id = gt_out.request_id
        /\ \A i \in DOMAIN gt_log :
               gt_log[i].request_id = gt_out.request_id

\* ---- session store
Live == ss_store.present /\ ss_now < ss_store.expires

C28_DeletedSessionStaysAbsent ==
    ss_gone => ~ss_store.present

\* ---- MFA enrolment
\* C22: mfa_enabled becomes true only through an mfa/verify call whose code
\* verifies against the stored secret; while a secret is stored and
\* mfa_enabled is false, login neither requires nor checks an MFA code.
C22_MfaEnabledOnlyByVerify ==
    [][/\ (~user.mfa_enabled /\ user'.mfa_enabled)
              => /\ req'.op = "mfa/verify"
                 /\ user.mfa_secret # NoSecret
                 /\ CodeMatches(req'.mfa_code)
                 /\ user'.mfa_secret = user.mfa_secret
       /\ (LoginAttempt /\ ForAccount /\ user.mfa_secret # NoSecret
           /\ ~user.mfa_enabled)
              => /\ ~resp'.mfa_required
                 /\ resp'.detail # "Invalid MFA code"
                 /\ "verify_totp" \notin calls']_vars

C22_Witness ==
    /\ user.mfa_enabled
    /\ req.op = "mfa/verify"
    /\ resp.detail = "MFA successfully enabled"

\* C29: mfa_enabled = true implies that mfa_secret is set, after every
\* call; a successful mfa/disable clears the flag, the secret and the
\* backup codes together.
C29_EnabledImpliesSecret ==
    [][/\ user'.mfa_enabled => user'.mfa_secret # NoSecret
       /\ (user.mfa_enabled /\ req'.op = "mfa/disable"
           /\ resp'.status_code = 200)
              => /\ ~user'.mfa_enabled
                 /\ user'.mfa_secret = NoSecret
                 /\ user'.backup_codes = NoSecret]_vars

C29_Witness ==
    /\ req.op = "mfa/disable"
    /\ resp.status_code = 200
    /\ ~user.mfa_enabled
    /\ user.mfa_secret = NoSecret
    /\ user.backup_codes = NoSecret

\* ---- rejections of login
\* C23: every rejected login returns the same generic answer to the caller
\* whatever the cause, so that runs which differ only in whether the
\* account exists, is locked or is inactive cannot be told apart.
C23_RejectionsIndistinguishable ==
    (req.op = "login" /\ resp.status_code # 200) => IsInvalidCredentials(resp)

\* ---- masking
Masked(i) == mk_out.out[i] = "*"

\* C24: the output of a masking function is as long as its input;
\* mask_account_number shows at most the last 4 characters,
\* mask_phone_number at most the first 3 and the last 3, and an input of at
\* most 4 characters (account) or 6 characters (phone) is masked entirely.
C24_MaskingRevealsNoMore ==
    mk_out.op # "none" =>
        /\ Len(mk_out.out) = Len(mk_in)
        /\ mk_out.op = "mask_account_number" =>
               /\ \A i \in 1..(Len(mk_in) - 4) : Masked(i)
               /\ Len(mk_in) <= 4 => \A i \in 1..Len(mk_in) : Masked(i)
        /\ mk_out.op = "mask_phone_number" =>
               /\ \A i \in 4..(Len(mk_in) - 3) : Masked(i)
               /\ Len(mk_in) <= 6 => \A i \in 1..Len(mk_in) : Masked(i)

\* ---- concurrent logins
\* C25: a caller that submits wrong passwords one after another has locked
\* the account, locked_until lying in the future, after at most
\* LockoutBound attempts, however the read and the write of the other
\* attempts in flight fall between its own.
C25_LockoutWithinBound ==
    cl_done >= LockoutBound => LockedNow

C25_Witness ==
    /\ cl_done = LockoutBound
    /\ LockedNow
    /\ cl_left = 0

\* ---- rate limiter, several callers
\* C26: however the calls of is_allowed for one identifier interleave, the
\* stored counter never exceeds the limit, so no more than RlLimit calls
\* are admitted in one window.
C26_CounterWithinLimit ==
    LiveCount <= RlLimit

\* C27: every counter key that exists carries an expiry, however the calls
\* interleave and also when the key expires between the read and the
\* increment.
C27_CounterKeyCarriesExpiry ==
    rl_store[ClientKey].count > 0 => rl_store[ClientKey].expires # NoTime

\* ---- bearer, logout
TokenAlone(token) ==
    /\ token.type = "access"
    /\ token.exp # NoTime
    /\ token.exp >= now
    /\ token.sub # ""

\* C30: a protected route accepts a bearer exactly when the token is an
\* unexpired access token with a sub, whatever the session store and the
\* account row hold; logout changes only the session entry and
\* current_session_id, and leaves the token as it is.
C30_TokenAloneDecides ==
    [][/\ (\E token \in BearerTokens : Authenticate(token))
            => (resp'.status_code = 200 <=> TokenAlone(held'))
       /\ (\E redis_ok \in BOOLEAN : Logout(redis_ok))
            => /\ held' = held
               /\ user' = [user EXCEPT !.current_session_id =
                                            user'.current_session_id]
               /\ resp'.status_code = 200
                    => user'.current_session_id = NoSession
               /\ DOMAIN sessions' \subseteq DOMAIN sessions
               /\ DOMAIN sessions \ DOMAIN sessions'
                    \subseteq {user.current_session_id}
               /\ \A s \in DOMAIN sessions' : sessions'[s] = sessions[s]]_vars

\* a token issued before the logout and before the lock is accepted after
\* both
C30_Witness ==
    /\ req.op = "auth"
    /\ resp.status_code = 200
    /\ user.current_session_id = NoSession
    /\ LockedNow
    /\ held.iat < user.last_failed_login

====
